---- MODULE Spec2Model ----
(***************************************************************************)
(* RawProcessing (src/source/RawProcessing.py): one photo object, its      *)
(* process() pipeline and the caller-level operations clear_memory,        *)
(* get_IMG, export, get_base_colour and set_wb_from_picker.                *)
(*                                                                         *)
(* An invocation of process() is a sequence of steps; a step boundary is   *)
(* placed wherever another invocation's reads or writes of the photo's     *)
(* attributes can fall in between with a different outcome.  The           *)
(* statements `self.active_processes += 1` and `-= 1` are unsynchronised   *)
(* read-modify-writes: the read and the write are separate steps.          *)
(*                                                                         *)
(* The file behind file_directory and the processing parameters that       *)
(* __init__ reads from the settings (film_type, sat) are fixed by the      *)
(* initial state; process() is deterministic in them.                      *)
(*                                                                         *)
(* Spec calls the operations one at a time, over every file and film type. *)
(* SpecOverlap lets invocations of process() and clear_memory overlap, on  *)
(* one photo.                                                              *)
(***************************************************************************)
EXTENDS Integers, Sequences, FiniteSets, TLC

\* ---------------------------------------------------------------- bounds
MaxRuns == 2          \* invocations of process() started in one behaviour
MaxSide == 3          \* rows and columns of a buffer whose samples are kept

\* ------------------------------------------------------ program constants
max_proxy_size == 2000     \* default_parameters['max_proxy_size']
wb_multiplier == 200       \* `multiplier` of wb_adjust_coeff
border_crop == 0           \* processing parameter without a saved value
vmax == 65535              \* largest sample, vmax of Normalize(0, 65535, True)

Runs == 1..MaxRuns
FilmTypes == 0..3          \* BW_NEGATIVE, COLOR_NEGATIVE, SLIDE, CROP_ONLY
SatValues == {50, 100}     \* self.sat (100 = neutral)

\* The image file behind file_directory: whether it can be decoded, the shape
\* <<rows, columns>> of the decoded buffer, and what cv2.findContours and
\* cv2.minAreaRect make of its thresholded samples: no contour, or a contour
\* and the angle, in whole degrees, of its minimum-area rectangle.
FileShapes == {<<600, 900>>, <<1000, 1500>>}
RawAngles == {-80, 90}
NoFrame == [contour |-> FALSE, angle |-> 0]
Frames == {NoFrame} \cup [contour : {TRUE}, angle : RawAngles]
Files == [readable : {TRUE}, shape : FileShapes, frame : Frames]
         \cup [readable : {FALSE}, shape : {<<600, 900>>}, frame : {NoFrame}]

\* Points of the preview a picker can be put on, with the mean <<B, G, R>> that
\* cv2.mean returns for the disc around each.
PickerPoints == {"warm", "black"}
MeanBGR(pt) ==
    CASE pt = "warm"  -> <<200, 300, 400>>
      [] pt = "black" -> <<0, 0, 0>>

\* ------------------------------------------------------------ value shapes
\* A buffer: rows h, columns w, the operations that produced its samples from
\* the decoded file, and the invocation that made it (0: none).  An
\* attribute that does not exist is NoBuf; one that holds None is NoneBuf.
NoBuf == [kind |-> "absent", h |-> 0, w |-> 0, ops |-> <<>>, run |-> 0]
NoneBuf == [kind |-> "None", h |-> 0, w |-> 0, ops |-> <<>>, run |-> 0]
Buf(h, w, ops, run) == [kind |-> "array", h |-> h, w |-> w, ops |-> ops, run |-> run]

\* self.rect: a missing attribute, None, or a normalised rotated rectangle.  A
\* normalised component is kept as its numerator in pixels over the dimension
\* (yd rows, xd columns) it was divided by.
UnsetRect == [kind |-> "unset", c0 |-> 0, c1 |-> 0, s0 |-> 0, s1 |-> 0, yd |-> 1, xd |-> 1, angle |-> 0]
NoneRect == [kind |-> "None", c0 |-> 0, c1 |-> 0, s0 |-> 0, s1 |-> 0, yd |-> 1, xd |-> 1, angle |-> 0]

NoArgs == [full_res |-> FALSE, recent_only |-> FALSE, skip_crop |-> FALSE]
NoRet == [op |-> "none", unreadable |-> FALSE, raised |-> FALSE]
NoCall == [fn |-> "none"]

Max(a, b) == IF a > b THEN a ELSE b
Min(a, b) == IF a < b THEN a ELSE b

VARIABLES
    file,              \* the file at file_directory
    film_type, sat,    \* processing parameters
    RAW_IMG, proxy_RAW_IMG, thresh, IMG, dust_mask,     \* buffers
    rect, largest_contour,
    processed, proxy, FileReadError, reject,
    active_processes, pick_wb, wb_picker_params,
    temp, tint, base_rgb,
    started,           \* number of process() invocations begun so far
    pc,                \* position of each invocation
    args,              \* (full_res, recent_only, skip_crop) of each invocation
    img, dm,           \* locals `img` and `dust_mask` of each invocation
    tmp,               \* value of active_processes read by a pending += / -=
    trace,             \* stages the invocation has called, in order
    picker,            \* invocation was made by set_wb_from_picker
    reloaded,          \* invocation called load()
    peak,              \* largest number of invocations in flight at once
    ret,               \* outcome of the last call, when it was a get_IMG, an
                       \* export or a get_base_colour
    call               \* one call of a function of the class taken by itself:
                       \* its arguments and, once it has returned, its result

params == <<file, film_type, sat>>
buffers == <<RAW_IMG, proxy_RAW_IMG, thresh, IMG, dust_mask>>
geometry == <<rect, largest_contour>>
flags == <<processed, proxy, FileReadError, reject>>
wbstate == <<pick_wb, wb_picker_params, temp, tint>>
locals == <<img, dm, tmp, trace>>
callinfo == <<started, args, picker, reloaded, peak>>
photo == <<params, buffers, geometry, flags, active_processes, wbstate,
           base_rgb, pc, locals, callinfo, ret>>
vars == <<photo, call>>

Final == {"skipped", "aborted", "discarded", "committed"}
InFlight(r) == pc[r] \notin Final \cup {"idle"}

\* ---------------------------------------------------------------- __init__
Constructed ==
    /\ file \in Files
    /\ film_type \in FilmTypes
    /\ sat \in SatValues
    /\ RAW_IMG = NoBuf /\ proxy_RAW_IMG = NoBuf /\ thresh = NoBuf
    /\ IMG = NoBuf /\ dust_mask = NoBuf
    /\ rect = UnsetRect /\ largest_contour = "unset"
    /\ processed = FALSE /\ proxy = FALSE /\ FileReadError = FALSE
    /\ reject = FALSE
    /\ active_processes = 0
    /\ pick_wb = FALSE /\ wb_picker_params = "unset"
    /\ temp = 0 /\ tint = 0 /\ base_rgb = "unset"
    /\ started = 0
    /\ pc = [r \in Runs |-> "idle"]
    /\ args = [r \in Runs |-> NoArgs]
    /\ img = [r \in Runs |-> NoBuf]
    /\ dm = [r \in Runs |-> NoBuf]
    /\ tmp = [r \in Runs |-> 0]
    /\ trace = [r \in Runs |-> <<>>]
    /\ picker = [r \in Runs |-> FALSE]
    /\ reloaded = [r \in Runs |-> FALSE]
    /\ peak = 0
    /\ ret = NoRet

Init == Constructed /\ call = NoCall

\* ------------------------------------------------------------------- load
\* load(): the decoded buffer, or None from cv2.imread when the file cannot be
\* read (lines 114-123 then set reject and FileReadError).
load(f) ==
    IF f.readable THEN Buf(f.shape[1], f.shape[2], <<>>, 0) ELSE NoneBuf

\* --------------------------------------------------------------- geometry
\* cv2.minAreaRect of the largest contour of a buffer of shape <<y, x>>:
\* ((c0, c1), (s0, s1), angle)
minAreaRect(y, x, a) ==
    [c0 |-> x \div 2, c1 |-> y \div 2,
     s0 |-> (8 * x) \div 10, s1 |-> (6 * y) \div 10, angle |-> a]

\* Lines 396-398 of find_optimal_crop: a raw angle <= 0 swaps the sides and
\* adds 90 degrees; the rectangle is then divided by the buffer's shape.
\* Lines 396-397 with the sides swapped and the 90 degrees left out
Canonical_swap_only(m, y, x) ==
    LET c == IF m.angle <= 0
             THEN [m EXCEPT !.s0 = m.s1, !.s1 = m.s0]
             ELSE m
    IN [kind |-> "rect", c0 |-> c.c0, c1 |-> c.c1, s0 |-> c.s0, s1 |-> c.s1,
        yd |-> y, xd |-> x, angle |-> c.angle]

Canonical(m, y, x) ==
    LET c == IF m.angle <= 0
             THEN [m EXCEPT !.s0 = m.s1, !.s1 = m.s0, !.angle = m.angle + 90]
             ELSE m
    IN [kind |-> "rect", c0 |-> c.c0, c1 |-> c.c1, s0 |-> c.s0, s1 |-> c.s1,
        yd |-> y, xd |-> x, angle |-> c.angle]

\* find_optimal_crop(): (thresh, rect, largest_contour) for the buffer `raw`
\* whose thresholded samples show the frame `frame`.
find_optimal_crop(raw, frame) ==
    LET th == Buf(raw.h, raw.w, <<"threshold">>, 0)
    IN  IF ~frame.contour
        THEN [thresh |-> th, rect |-> NoneRect, largest_contour |-> "None"]
        ELSE [thresh |-> th,
              rect |-> Canonical(minAreaRect(raw.h, raw.w, frame.angle),
                                 raw.h, raw.w),
              largest_contour |-> "contour"]

\* Lines 279-286: the downscaled proxy of `raw`, when height + width exceeds
\* max_proxy_size.
NeedsProxy(raw) == raw.h + raw.w > max_proxy_size
MakeProxy(raw) ==
    LET img_size == raw.h + raw.w
        x == (raw.w * max_proxy_size) \div img_size
        y == (raw.h * max_proxy_size) \div img_size
    IN Buf(y, x, <<"resize">>, 0)

\* crop(img, rect): lines 401-429 with include_EQ_ignore = False.
x_crop(im) == IF im.h > im.w THEN border_crop ELSE (border_crop * im.h) \div im.w
y_crop(im) == IF im.h > im.w THEN (border_crop * im.w) \div im.h ELSE border_crop
\* crop without the `rect is not None` guard of line 402
crop_unguarded(im, rc) ==
    LET width == (rc.s1 * im.w * (100 - x_crop(im))) \div (rc.xd * 100)
        height == (rc.s0 * im.h * (100 - y_crop(im))) \div (rc.yd * 100)
    IN [im EXCEPT !.h = width, !.w = height, !.ops = Append(@, "warp")]

crop(im, rc) ==
    IF rc.kind = "None" THEN im
    ELSE LET width == (rc.s1 * im.w * (100 - x_crop(im))) \div (rc.xd * 100)
             height == (rc.s0 * im.h * (100 - y_crop(im))) \div (rc.yd * 100)
             \* warpPerspective(img, M, (height, width)): `width` rows
             warped == [im EXCEPT !.h = width, !.w = height,
                                  !.ops = Append(@, "warp")]
         IN IF rc.angle > 45
            THEN [warped EXCEPT !.h = height, !.w = width]
            ELSE warped

\* find_dust(img): a single-channel mask of the shape of img.
find_dust(im) == Buf(im.h, im.w, <<"dust">>, 0)

\* ------------------------------------------------------- film-type stages
\* A stage takes and returns st = [img, trace]: the buffer and the stages
\* called so far.
Stage(st, name) ==
    [img |-> [st.img EXCEPT !.ops = Append(@, name)],
     trace |-> Append(st.trace, name)]

cvtColor_gray(st) == Stage(st, "gray")
invert(st) == Stage(st, "invert")
hist_EQ(st) == Stage(st, "hist_EQ")
wb_adjust_coeff(st) == Stage(st, "wb")
exposure(st) == Stage(st, "exposure")
clip(st) == Stage(st, "clip")
\* sat_adjust returns its argument untouched when self.sat == 100
sat_adjust(st, s) ==
    IF s = 100 THEN [st EXCEPT !.trace = Append(@, "sat_adjust")]
    ELSE Stage(st, "sat_adjust")

\* bw_negative_processing without its line 323
bw_negative_unclipped(st) ==
    exposure(hist_EQ(invert(cvtColor_gray(st))))

bw_negative_processing(st) ==
    clip(exposure(hist_EQ(invert(cvtColor_gray(st)))))

\* slide_processing with lines 335 and 336 exchanged
slide_processing_sat_first(st, s) ==
    clip(exposure(sat_adjust(wb_adjust_coeff(hist_EQ(st)), s)))

slide_processing(st, s) ==
    clip(sat_adjust(exposure(wb_adjust_coeff(hist_EQ(st))), s))

colour_negative_processing(st, s) ==
    slide_processing(invert(st), s)

crop_only(st) == st

\* The match statement of process(), lines 297-305.
FilmTypeDispatch(f, st, s) ==
    CASE f = 0 -> bw_negative_processing(st)
      [] f = 1 -> colour_negative_processing(st, s)
      [] f = 2 -> slide_processing(st, s)
      [] f = 3 -> crop_only(st)

\* The film types whose pipeline calls wb_adjust_coeff.
RunsWb(f) == f \in {1, 2}

\* ----------------------------------------------------- white-balance pick
Clamp100(v) == Max(Min(v, 100), -100)

\* Line 535, to whole numbers:
\* (G/B + G/R - 2) / ((B*(G+R) + R*G) / (B*R)) * multiplier
SolveTint(B, G, R) ==
    Clamp100((wb_multiplier * (G * R + G * B - 2 * B * R))
                \div (B * (G + R) + R * G))

\* Line 536, to whole numbers:
\* ((2*G - (2*G+R)*tint/multiplier) / 2 / R - 1) * multiplier
SolveTemp(G, R, t) ==
    Clamp100(((2 * G * wb_multiplier - (2 * G + R) * t) \div (2 * R))
                - wb_multiplier)

\* The divisions of line 535 raise ZeroDivisionError when B or R is 0.
PickRaises(m) == m[1] = 0 \/ m[3] = 0

\* ---------------------------------------------------------------- process
\* process() is left (return or exception): its locals are gone.  Of the
\* arguments only recent_only is kept, for the record of what was asked.
Leave(r, how) ==
    /\ pc' = [pc EXCEPT ![r] = how]
    /\ img' = [img EXCEPT ![r] = NoBuf]
    /\ dm' = [dm EXCEPT ![r] = NoBuf]
    /\ tmp' = [tmp EXCEPT ![r] = 0]
    /\ trace' = [trace EXCEPT ![r] = <<>>]
    /\ args' = [args EXCEPT ![r] = [NoArgs EXCEPT !.recent_only = args[r].recent_only]]
    /\ picker' = [picker EXCEPT ![r] = FALSE]

\* Lines 270-274 (up to the read of `self.active_processes += 1`), entered by
\* the next invocation r with arguments a.  armed/pt are the assignments
\* set_wb_from_picker makes before it calls process().
Begin(r, a, armed, pt) ==
    /\ r = started + 1
    /\ r \in Runs
    /\ pc[r] = "idle"
    /\ LET needLoad == RAW_IMG.kind = "absent"
           raw1 == IF needLoad THEN load(file) ELSE RAW_IMG
           fre1 == IF needLoad THEN ~file.readable ELSE FileReadError
       IN /\ RAW_IMG' = raw1
          /\ FileReadError' = fre1
          /\ reject' = IF needLoad /\ ~file.readable THEN TRUE ELSE reject
          /\ reloaded' = [reloaded EXCEPT ![r] = needLoad]
          /\ pc' = [pc EXCEPT ![r] = IF fre1 THEN "skipped" ELSE "inc"]
          /\ tmp' = [tmp EXCEPT ![r] = IF fre1 THEN 0 ELSE active_processes]
          /\ args' = [args EXCEPT ![r] =
                        IF fre1 THEN [NoArgs EXCEPT !.recent_only = a.recent_only]
                        ELSE a]
          /\ picker' = [picker EXCEPT ![r] = armed /\ ~fre1]
          /\ peak' = IF fre1 THEN peak
                     ELSE Max(peak, 1 + Cardinality({q \in Runs : InFlight(q)}))
    /\ started' = r
    /\ pick_wb' = IF armed THEN TRUE ELSE pick_wb
    /\ wb_picker_params' = IF armed THEN pt ELSE wb_picker_params
    /\ ret' = NoRet
    /\ UNCHANGED <<call, params, proxy_RAW_IMG, thresh, IMG, dust_mask, geometry,
                   processed, proxy, active_processes, temp, tint,
                   base_rgb, img, dm, trace>>

\* process(full_res, recent_only, skip_crop) called by the application
Process(r) ==
    \E fr \in BOOLEAN, ro \in BOOLEAN, sc \in BOOLEAN :
        Begin(r, [full_res |-> fr, recent_only |-> ro, skip_crop |-> sc],
              FALSE, "unset")

\* set_wb_from_picker(x, y), lines 704-709: arms the pick and calls process()
SetWbFromPicker(r) ==
    \E pt \in PickerPoints : Begin(r, NoArgs, TRUE, pt)

\* The write of `self.active_processes += 1`, line 274
IncWrite(r) ==
    /\ pc[r] = "inc"
    /\ active_processes' = tmp[r] + 1
    /\ pc' = [pc EXCEPT ![r] = "geom"]
    /\ tmp' = [tmp EXCEPT ![r] = 0]
    /\ UNCHANGED <<call, params, buffers, geometry, flags, wbstate, base_rgb,
                   img, dm, trace, callinfo, ret>>

\* Line 276 without its test of skip_crop
RunsGeometryAlways(skip_crop, th) == TRUE

\* Line 276: whether this invocation estimates the geometry
RunsGeometry(skip_crop, th) == ~skip_crop \/ th.kind = "absent"

\* Lines 276-286: geometry estimation and the proxy
Geometry(r) ==
    /\ pc[r] = "geom"
    /\ IF ~RunsGeometry(args[r].skip_crop, thresh)
       THEN /\ pc' = [pc EXCEPT ![r] = "dust"]
            /\ args' = [args EXCEPT ![r].skip_crop = FALSE]
            /\ UNCHANGED <<thresh, geometry, proxy_RAW_IMG, proxy, img, dm,
                           tmp, trace, picker>>
       ELSE IF RAW_IMG.kind # "array"
       THEN \* self.RAW_IMG was deleted meanwhile: AttributeError
            /\ Leave(r, "aborted")
            /\ UNCHANGED <<thresh, geometry, proxy_RAW_IMG, proxy>>
       ELSE /\ LET g == find_optimal_crop(RAW_IMG, file.frame)
               IN /\ thresh' = [g.thresh EXCEPT !.run = r]
                  /\ rect' = g.rect
                  /\ largest_contour' = g.largest_contour
            /\ IF NeedsProxy(RAW_IMG)
               THEN /\ proxy_RAW_IMG' = [MakeProxy(RAW_IMG) EXCEPT !.run = r]
                    /\ proxy' = TRUE
               ELSE UNCHANGED <<proxy_RAW_IMG, proxy>>
            /\ pc' = [pc EXCEPT ![r] = "dust"]
            /\ args' = [args EXCEPT ![r].skip_crop = FALSE]
            /\ UNCHANGED <<img, dm, tmp, trace, picker>>
    /\ UNCHANGED <<call, params, RAW_IMG, IMG, dust_mask, processed, FileReadError,
                   reject, active_processes, wbstate, base_rgb,
                   started, reloaded, peak, ret>>

\* Lines 289-292: the buffer the pipeline works on
WorkingBuffer(full_res) ==
    IF proxy /\ ~full_res THEN proxy_RAW_IMG ELSE RAW_IMG

\* Lines 289-294: choice of the working buffer, dust detection
FindDust(r) ==
    /\ pc[r] = "dust"
    /\ LET src == WorkingBuffer(args[r].full_res)
       IN IF src.kind # "array" \/ rect.kind = "unset"
          THEN Leave(r, "aborted")
          ELSE /\ img' = [img EXCEPT ![r] = [src EXCEPT !.run = r]]
               /\ dm' = [dm EXCEPT ![r] = [find_dust(crop(src, rect)) EXCEPT !.run = r]]
               /\ pc' = [pc EXCEPT ![r] = "film"]
               /\ args' = [args EXCEPT ![r].full_res = FALSE]
               /\ UNCHANGED <<tmp, trace, picker>>
    /\ UNCHANGED <<call, params, buffers, geometry, flags, active_processes, wbstate,
                   base_rgb, started, reloaded, peak, ret>>

\* Lines 296-305: the film-type pipeline, with the pick of wb_adjust_coeff
\* (lines 522-536) when the pipeline reaches it with pick_wb set.
FilmType(r) ==
    /\ pc[r] = "film"
    /\ LET st0 == [img |-> img[r], trace |-> trace[r]]
           picks == RunsWb(film_type) /\ pick_wb
           m == MeanBGR(wb_picker_params)
       IN IF picks /\ PickRaises(m)
          THEN /\ Leave(r, "aborted")
               /\ pick_wb' = FALSE
               /\ UNCHANGED <<temp, tint>>
          ELSE /\ LET st1 == FilmTypeDispatch(film_type, st0, sat)
                  IN /\ img' = [img EXCEPT ![r] = st1.img]
                     /\ trace' = [trace EXCEPT ![r] = st1.trace]
               /\ pc' = [pc EXCEPT ![r] = "crop"]
               /\ pick_wb' = IF picks THEN FALSE ELSE pick_wb
               /\ tint' = IF picks THEN SolveTint(m[1], m[2], m[3]) ELSE tint
               /\ temp' = IF picks
                          THEN SolveTemp(m[2], m[3], SolveTint(m[1], m[2], m[3]))
                          ELSE temp
               /\ UNCHANGED <<dm, tmp, args, picker>>
    /\ UNCHANGED <<call, params, buffers, geometry, flags, active_processes,
                   wb_picker_params, base_rgb, started, reloaded, peak, ret>>

\* Line 307 and the read of `self.active_processes -= 1`, line 309
Crop(r) ==
    /\ pc[r] = "crop"
    /\ IF rect.kind = "unset"
       THEN Leave(r, "aborted")
       ELSE /\ img' = [img EXCEPT ![r] = crop(img[r], rect)]
            /\ trace' = [trace EXCEPT ![r] = Append(@, "crop")]
            /\ tmp' = [tmp EXCEPT ![r] = active_processes]
            /\ pc' = [pc EXCEPT ![r] = "dec"]
            /\ UNCHANGED <<dm, args, picker>>
    /\ UNCHANGED <<call, params, buffers, geometry, flags, active_processes, wbstate,
                   base_rgb, started, reloaded, peak, ret>>

\* The write of `self.active_processes -= 1`, line 309
DecWrite(r) ==
    /\ pc[r] = "dec"
    /\ active_processes' = tmp[r] - 1
    /\ pc' = [pc EXCEPT ![r] = "check"]
    /\ tmp' = [tmp EXCEPT ![r] = 0]
    /\ UNCHANGED <<call, params, buffers, geometry, flags, wbstate, base_rgb,
                   img, dm, trace, callinfo, ret>>

\* Line 310 comparing the counter with 1 instead of 0
DiscardsAboveOne(recent_only, active) == recent_only /\ active > 1

\* Line 310: the latest-only check
Discards(recent_only, active) == recent_only /\ active > 0

\* Lines 310-314: the check, then `self.IMG = img`
Check(r) ==
    /\ pc[r] = "check"
    /\ IF Discards(args[r].recent_only, active_processes)
       THEN /\ Leave(r, "discarded")
            /\ UNCHANGED IMG
       ELSE /\ IMG' = img[r]
            /\ pc' = [pc EXCEPT ![r] = "commit"]
            /\ img' = [img EXCEPT ![r] = NoBuf]
            /\ UNCHANGED <<dm, tmp, trace, args, picker>>
    /\ UNCHANGED <<call, params, RAW_IMG, proxy_RAW_IMG, thresh, dust_mask, geometry,
                   flags, active_processes, wbstate, base_rgb,
                   started, reloaded, peak, ret>>

\* Lines 315-316: `self.dust_mask = dust_mask`, `self.processed = True`
Commit(r) ==
    /\ pc[r] = "commit"
    /\ dust_mask' = dm[r]
    /\ processed' = TRUE
    /\ Leave(r, "committed")
    /\ UNCHANGED <<call, params, RAW_IMG, proxy_RAW_IMG, thresh, IMG, geometry,
                   proxy, FileReadError, reject, active_processes, wbstate,
                   base_rgb, started, reloaded, peak, ret>>

\* ----------------------------------------------------------- clear_memory
\* Line 690 with the two masks left out
to_del_images == {"IMG", "RAW_IMG", "proxy_RAW_IMG"}

\* Line 690: the attributes clear_memory deletes
to_del == {"IMG", "thresh", "RAW_IMG", "proxy_RAW_IMG", "dust_mask"}

Deleted(attr, value) == IF attr \in to_del THEN NoBuf ELSE value

\* clear_memory(), lines 688-694
ClearMemory ==
    /\ IMG' = Deleted("IMG", IMG)
    /\ thresh' = Deleted("thresh", thresh)
    /\ RAW_IMG' = Deleted("RAW_IMG", RAW_IMG)
    /\ proxy_RAW_IMG' = Deleted("proxy_RAW_IMG", proxy_RAW_IMG)
    /\ dust_mask' = Deleted("dust_mask", dust_mask)
    /\ processed' = FALSE
    /\ ret' = NoRet
    /\ UNCHANGED <<call, params, geometry, proxy, FileReadError, reject,
                   active_processes, wbstate, base_rgb, pc, locals,
                   callinfo>>

\* ------------------------------------------- get_IMG, export, get_base_colour
Outputs == {"RAW", "Threshold", "Contours", "Histogram", "default"}

\* get_IMG(output), lines 144-199: whether reading the attributes the chosen
\* branch needs raises AttributeError
GetIMGRaises(output, remove_dust) ==
    CASE output = "RAW" -> RAW_IMG.kind # "array"
      [] output = "Threshold" -> thresh.kind # "array"
      [] output = "Contours" ->
            thresh.kind # "array" \/ RAW_IMG.kind # "array" \/ rect.kind = "unset"
      [] output = "Histogram" -> IMG.kind # "array"
      [] output = "default" ->
            IMG.kind # "array" \/ (remove_dust /\ dust_mask.kind # "array")

\* get_IMG(output), lines 140-206; remove_dust is the photo's parameter
GetIMG ==
    /\ \E output \in Outputs, remove_dust \in BOOLEAN :
          ret' = [op |-> "get_IMG", unreadable |-> FileReadError,
                  raised |-> IF FileReadError THEN FALSE   \* line 142
                             ELSE GetIMGRaises(output, remove_dust)]
    /\ UNCHANGED <<call, params, buffers, geometry, flags, active_processes, wbstate,
                   base_rgb, pc, locals, callinfo>>

\* export(filename), lines 237-255: returns without IMG; otherwise encodes what
\* get_IMG(as_array=True) returned, which is None for an unreadable photo.
Export ==
    /\ \E remove_dust \in BOOLEAN :
          ret' = [op |-> "export", unreadable |-> FileReadError,
                  raised |-> IF IMG.kind = "absent" THEN FALSE   \* line 240
                             ELSE IF FileReadError THEN TRUE
                             ELSE GetIMGRaises("default", remove_dust)]
    /\ UNCHANGED <<call, params, buffers, geometry, flags, active_processes, wbstate,
                   base_rgb, pc, locals, callinfo>>

\* Line 714 of get_base_colour indexes self.RAW_IMG at once: it raises when the
\* attribute is missing or None.
BaseColourRaises(raw) == raw.kind # "array"

\* get_base_colour(x, y), lines 711-724
GetBaseColour ==
    /\ IF BaseColourRaises(RAW_IMG)
       THEN /\ UNCHANGED base_rgb
            /\ ret' = [op |-> "get_base_colour", unreadable |-> FileReadError,
                       raised |-> TRUE]
       ELSE /\ base_rgb' = "measured"      \* line 724
            /\ ret' = [op |-> "get_base_colour", unreadable |-> FileReadError,
                       raised |-> FALSE]
    /\ UNCHANGED <<call, params, buffers, geometry, flags, active_processes, wbstate,
                   pc, locals, callinfo>>

\* ------------------------------------------------------------------- Next
\* One step of an invocation of process()
Step(r) ==
    \/ IncWrite(r)
    \/ Geometry(r)
    \/ FindDust(r)
    \/ FilmType(r)
    \/ Crop(r)
    \/ DecWrite(r)
    \/ Check(r)
    \/ Commit(r)

Idle == \A r \in Runs : ~InFlight(r)

\* Spec: the application calls one operation at a time and each call runs to
\* its end before the next one (every handler whole).
Next ==
    \/ Idle /\ \E r \in Runs : Process(r)
    \/ Idle /\ \E r \in Runs : SetWbFromPicker(r)
    \/ \E r \in Runs : Step(r)
    \/ Idle /\ ClearMemory
    \/ Idle /\ GetIMG
    \/ Idle /\ Export
    \/ Idle /\ GetBaseColour

Spec == Init /\ [][Next]_vars

\* SpecOverlap: invocations of process() overlap (the application calls it
\* from several threads, as recent_only expects) and clear_memory can fall
\* between any two of their steps.  The photo is one readable colour slide
\* large enough for a proxy, and the overlapping calls are preview requests.
ProcessPreview(r) ==
    \E ro \in BOOLEAN :
        Begin(r, [full_res |-> FALSE, recent_only |-> ro, skip_crop |-> FALSE],
              FALSE, "unset")

InitOverlap ==
    /\ Init
    /\ file = [readable |-> TRUE, shape |-> <<1000, 1500>>,
               frame |-> [contour |-> TRUE, angle |-> 90]]
    /\ film_type = 2
    /\ sat = 50

NextOverlap ==
    \/ \E r \in Runs : ProcessPreview(r)
    \/ \E r \in Runs : Step(r)
    \/ ClearMemory

SpecOverlap == InitOverlap /\ [][NextOverlap]_vars

\* ================================================== functions by themselves
\* The specifications below take one function of the class and call it on
\* arguments drawn by the initial state.  The photo is a constructed one and
\* stays as it is.
OnePhoto ==
    /\ Constructed
    /\ file = [readable |-> TRUE, shape |-> <<1000, 1500>>,
               frame |-> [contour |-> TRUE, angle |-> 90]]
    /\ film_type = 2
    /\ sat = 50

\* ------------------------------------------------------------------ rotate
\* A buffer with its samples: a sequence of rows.  Sample (i, j) of the buffer
\* of h rows and w columns is its row-major index, so no two are equal.
Matrix(h, w) == [i \in 1..h |-> [j \in 1..w |-> (i - 1) * w + j]]
Rows(m) == Len(m)
Cols(m) == Len(m[1])
Matrices == {Matrix(h, w) : h \in 1..MaxSide, w \in 1..MaxSide}
Rotations == -2..5         \* self.rotation, any integer

\* cv2.rotate(img, cv2.ROTATE_90_CLOCKWISE)
ROTATE_90_CLOCKWISE(m) ==
    [i \in 1..Cols(m) |-> [j \in 1..Rows(m) |-> m[Rows(m) + 1 - j][i]]]
\* cv2.rotate(img, cv2.ROTATE_90_COUNTERCLOCKWISE)
ROTATE_90_COUNTERCLOCKWISE(m) ==
    [i \in 1..Cols(m) |-> [j \in 1..Rows(m) |-> m[j][Cols(m) + 1 - i]]]
\* cv2.rotate(img, cv2.ROTATE_180)
ROTATE_180(m) ==
    [i \in 1..Rows(m) |-> [j \in 1..Cols(m) |->
        m[Rows(m) + 1 - i][Cols(m) + 1 - j]]]
\* img[:,::-1]
FlipColumns(m) ==
    [i \in 1..Rows(m) |-> [j \in 1..Cols(m) |-> m[i][Cols(m) + 1 - j]]]

\* rotate with the flip of the undo branch moved after its rotation, as in
\* the forward branch
rotate_flip_last(m, rotation, flip, undo) ==
    LET q == rotation % 4
        turned == IF undo
                  THEN CASE q = 0 -> m
                         [] q = 1 -> ROTATE_90_COUNTERCLOCKWISE(m)
                         [] q = 2 -> ROTATE_180(m)
                         [] q = 3 -> ROTATE_90_CLOCKWISE(m)
                  ELSE CASE q = 0 -> m
                         [] q = 1 -> ROTATE_90_CLOCKWISE(m)
                         [] q = 2 -> ROTATE_180(m)
                         [] q = 3 -> ROTATE_90_COUNTERCLOCKWISE(m)
    IN IF flip THEN FlipColumns(turned) ELSE turned

\* rotate(img, undo), lines 600-627, for self.rotation and self.flip
rotate(m, rotation, flip, undo) ==
    LET q == rotation % 4                                  \* line 602
    IN IF undo
       THEN LET f == IF flip THEN FlipColumns(m) ELSE m    \* lines 604-605
            IN CASE q = 0 -> f
                 [] q = 1 -> ROTATE_90_COUNTERCLOCKWISE(f)
                 [] q = 2 -> ROTATE_180(f)
                 [] q = 3 -> ROTATE_90_CLOCKWISE(f)
       ELSE LET t == CASE q = 0 -> m
                       [] q = 1 -> ROTATE_90_CLOCKWISE(m)
                       [] q = 2 -> ROTATE_180(m)
                       [] q = 3 -> ROTATE_90_COUNTERCLOCKWISE(m)
            IN IF flip THEN FlipColumns(t) ELSE t          \* lines 625-626

RotateCalls ==
    [fn : {"rotate"}, img : Matrices, rotation : Rotations, flip : BOOLEAN,
     cur : Matrices, stage : {"args"}]

InitRotate == OnePhoto /\ call \in {c \in RotateCalls : c.cur = c.img}

\* rotate(img)
RotateForward ==
    /\ call.stage = "args"
    /\ call' = [call EXCEPT !.cur = rotate(call.cur, call.rotation, call.flip, FALSE),
                            !.stage = "rotated"]
    /\ UNCHANGED photo

\* rotate(img, True) on what rotate(img) returned
RotateUndo ==
    /\ call.stage = "rotated"
    /\ call' = [call EXCEPT !.cur = rotate(call.cur, call.rotation, call.flip, TRUE),
                            !.stage = "restored"]
    /\ UNCHANGED photo

NextRotate ==
    \/ RotateForward
    \/ RotateUndo

SpecRotate == InitRotate /\ [][NextRotate]_vars

\* ------------------------------------------------------- find_optimal_crop
\* The angles cv2.minAreaRect returns, in whole degrees: [-90, 0) before
\* OpenCV 4.5.1, (0, 90] since.
MinAreaRectAngles == -90..90

CropCalls ==
    [fn : {"find_optimal_crop"}, shape : FileShapes, angle : MinAreaRectAngles,
     rect : {UnsetRect}, stage : {"args"}]

InitCrop == OnePhoto /\ call \in CropCalls

\* find_optimal_crop() on a buffer whose largest contour has a minimum-area
\* rectangle of the given angle
FindOptimalCrop ==
    /\ call.stage = "args"
    /\ LET raw == Buf(call.shape[1], call.shape[2], <<>>, 0)
           g == find_optimal_crop(raw, [contour |-> TRUE, angle |-> call.angle])
       IN call' = [call EXCEPT !.rect = g.rect, !.stage = "returned"]
    /\ UNCHANGED photo

NextCrop == FindOptimalCrop

SpecCrop == InitCrop /\ [][NextCrop]_vars

\* --------------------------------------------------------------- shrink_box
\* A box is four corners in the order the caller gives them; a corner is
\* <<column 0, column 1>> of its row in the array.  w, h and the offsets are
\* floating-point numbers in the code; here they are exact fractions (w and h
\* as their doubles w2 and h2), and int() is truncation towards zero.  On the
\* corners and percentages below the two give the same integers.
Coords == {0, 20, 60}
Corners == Coords \X Coords
Boxes == [1..4 -> Corners]
Percents == {0, 5}

\* int(n / d) for d > 0
Trunc(n, d) == IF n >= 0 THEN n \div d ELSE -((-n) \div d)

\* np.sort(box, 0)[:, c]
SortedColumn(box, c) ==
    [k \in 1..4 |-> CHOOSE v \in {box[i][c] : i \in 1..4} :
        /\ Cardinality({i \in 1..4 : box[i][c] < v}) < k
        /\ Cardinality({i \in 1..4 : box[i][c] <= v}) >= k]

\* twice (sorted[2,c] + sorted[3,c] - sorted[0,c] - sorted[1,c]) / 2
Extent2(box, c) ==
    LET s == SortedColumn(box, c) IN s[3] + s[4] - s[1] - s[2]

\* min(box, key=sum): the first corner of the smallest coordinate sum
topleft(box) ==
    LET i == CHOOSE i \in 1..4 :
                /\ \A j \in 1..4 : box[j][1] + box[j][2] >= box[i][1] + box[i][2]
                /\ \A j \in 1..(i - 1) : box[j][1] + box[j][2] > box[i][1] + box[i][2]
    IN box[i]

\* np.where(box==topleft)[0][0]: the comparison is element by element, so
\* this is the first row that has either coordinate of topleft
TopleftIndex(box) ==
    LET t == topleft(box)
        i == CHOOSE i \in 1..4 :
                /\ box[i][1] = t[1] \/ box[i][2] = t[2]
                /\ \A j \in 1..(i - 1) : box[j][1] # t[1] /\ box[j][2] # t[2]
    IN i - 1

\* np.roll(box, k, axis=0)
roll(box, k) == [i \in 1..4 |-> box[((i - 1 - k) % 4) + 1]]

ShrinkCalls ==
    [fn : {"shrink_box"}, box : Boxes, x : Percents, y : Percents,
     index : {0}, ordered : {<<>>}, h2 : {0}, w2 : {0}, offset : {<<>>},
     raised : {"none"}, new_box : {<<>>}, stage : {"args"}]

InitShrink == OnePhoto /\ call \in ShrinkCalls

\* Lines 729-734: sorted, topleft, index, ordered, h and w
ShrinkOrder ==
    /\ call.stage = "args"
    /\ call' = [call EXCEPT !.index = TopleftIndex(call.box),
                            !.ordered = roll(call.box, -TopleftIndex(call.box)),
                            !.h2 = Extent2(call.box, 2),
                            !.w2 = Extent2(call.box, 1),
                            !.stage = "ordered"]
    /\ UNCHANGED photo

\* Lines 736-743: every corner's offset towards the centre, int(x_offset)
\* and int(y_offset)
ShrinkOffsets ==
    /\ call.stage = "ordered"
    /\ LET ordered == call.ordered
           sum1 == ordered[1][1] + ordered[2][1] + ordered[3][1] + ordered[4][1]
           sum2 == ordered[1][2] + ordered[2][2] + ordered[3][2] + ordered[4][2]
           int_y_offset == Trunc(call.y * call.h2, 200)
           int_x_offset == Trunc(call.x * call.w2, 200)
       IN call' = [call EXCEPT
                     !.offset = [i \in 1..4 |->
                        << IF 4 * ordered[i][1] < sum1 THEN int_x_offset
                           ELSE IF 4 * ordered[i][1] > sum1 THEN -int_x_offset
                           ELSE 0,
                           IF 4 * ordered[i][2] < sum2 THEN int_y_offset
                           ELSE IF 4 * ordered[i][2] > sum2 THEN -int_y_offset
                           ELSE 0 >>],
                     !.stage = "offsets"]
    /\ UNCHANGED photo

\* Lines 744-752, with skew = (ordered[3,0] - ordered[0,0]) / w * 1.5 of line
\* 735: int(x_offset * skew) is int(3 x dx / 200) and int(y_offset * skew)
\* is int(3 y h2 dx / (200 w2)).  When w is 0 skew is 0 / 0.0, and int() of
\* the nan raises ValueError.
ShrinkSkew ==
    /\ call.stage = "offsets"
    /\ IF call.w2 = 0
       THEN call' = [call EXCEPT !.raised = "ValueError", !.stage = "returned"]
       ELSE LET dx == call.ordered[4][1] - call.ordered[1][1]
                x_skew == Trunc(3 * call.x * dx, 200)
                y_skew == Trunc(3 * call.y * call.h2 * dx, 200 * call.w2)
            IN call' = [call EXCEPT
                          !.offset = [i \in 1..4 |->
                             LET p1 == IF call.offset[i][1] > 0
                                       THEN call.offset[i][2] - x_skew
                                       ELSE call.offset[i][2] + x_skew
                                 p0 == IF p1 < 0 THEN call.offset[i][1] - y_skew
                                       ELSE call.offset[i][1] + y_skew
                             IN <<p0, p1>>],
                          !.stage = "skewed"]
    /\ UNCHANGED photo

\* Lines 753-755: ordered + offset, rolled back to the order of box
ShrinkReturn ==
    /\ call.stage = "skewed"
    /\ call' = [call EXCEPT
                  !.new_box = roll([i \in 1..4 |->
                                      <<call.ordered[i][1] + call.offset[i][1],
                                        call.ordered[i][2] + call.offset[i][2]>>],
                                   call.index),
                  !.stage = "returned"]
    /\ UNCHANGED photo

\* shrink_box(box, x, y), lines 727-755
NextShrink ==
    \/ ShrinkOrder
    \/ ShrinkOffsets
    \/ ShrinkSkew
    \/ ShrinkReturn

SpecShrink == InitShrink /\ [][NextShrink]_vars

\* ------------------------------------------------ white balance from a pick
\* The `if self.pick_wb:` block of each of the three white-balance functions,
\* on the mean <<B, G, R>> that cv2.mean returns for the picked disc.  A mean
\* is given in 256ths of the full scale.  temp and tint are floating-point
\* numbers in the code; here they are truncated to integers before the clamp.
MeanLevels == {0, 16, 64, 128, 240}
Means == MeanLevels \X MeanLevels \X MeanLevels

\* wb_adjust, lines 510-513: the means are on the scale of 65535
wb_adjust_pick(B, G, R) ==
    [temp |-> Clamp100(Trunc((B - R) * vmax, 2 * 256 * wb_multiplier)),
     tint |-> Clamp100(Trunc((B + R - 2 * G) * vmax, 2 * 256 * wb_multiplier))]

\* wb_adjust_coeff, lines 535-536: the quotients do not depend on the scale
wb_adjust_coeff_pick(B, G, R) ==
    [temp |-> SolveTemp(G, R, SolveTint(B, G, R)),
     tint |-> SolveTint(B, G, R)]

\* The means 2^-a of the full scale, a in {1, 2, 4, 8}: np.log of such a mean
\* is -a ln 2, and log2 of a quotient of two such logarithms a whole number.
HalfPowers == {1, 2, 4, 8}
HalfLevels == {256 \div 2^a : a \in HalfPowers}
LogHalf(v) == CHOOSE a \in HalfPowers : v * 2^a = 256
Lg(a) == CHOOSE k \in 0..3 : 2^k = a

\* The means wb_adjust_gamma is given here: B, G and the target (B + R) / 2
\* are among them
GammaMeans ==
    {m \in HalfLevels \X HalfLevels \X (0..256) :
        \E t \in HalfLevels : m[1] + m[3] = 2 * t}

\* wb_adjust_gamma, lines 558-560, the means on the scale of 1 (line 544):
\* 100 * log2(log(target) / log(B)) and -100 * log2(log(target) / log(G))
wb_adjust_gamma_pick(B, G, R) ==
    LET target == (B + R) \div 2
    IN [temp |-> 100 * (Lg(LogHalf(target)) - Lg(LogHalf(B))),
        tint |-> -100 * (Lg(LogHalf(target)) - Lg(LogHalf(G)))]

PickCalls ==
    [fn : {"wb_adjust", "wb_adjust_coeff"}, mean : Means,
     temp : {0}, tint : {0}, raised : {"none"}, stage : {"args"}]
    \cup [fn : {"wb_adjust_gamma"}, mean : GammaMeans,
          temp : {0}, tint : {0}, raised : {"none"}, stage : {"args"}]

InitPick == OnePhoto /\ call \in PickCalls

\* wb_adjust(img) with pick_wb set
PickAdditive ==
    /\ call.fn = "wb_adjust" /\ call.stage = "args"
    /\ LET s == wb_adjust_pick(call.mean[1], call.mean[2], call.mean[3])
       IN call' = [call EXCEPT !.temp = s.temp, !.tint = s.tint,
                               !.stage = "returned"]
    /\ UNCHANGED photo

\* wb_adjust_coeff(img) with pick_wb set
PickCoeff ==
    /\ call.fn = "wb_adjust_coeff" /\ call.stage = "args"
    /\ IF PickRaises(call.mean)
       THEN call' = [call EXCEPT !.raised = "ZeroDivisionError",
                                 !.stage = "returned"]
       ELSE LET s == wb_adjust_coeff_pick(call.mean[1], call.mean[2], call.mean[3])
            IN call' = [call EXCEPT !.temp = s.temp, !.tint = s.tint,
                                    !.stage = "returned"]
    /\ UNCHANGED photo

\* wb_adjust_gamma(img) with pick_wb set
PickGamma ==
    /\ call.fn = "wb_adjust_gamma" /\ call.stage = "args"
    /\ LET s == wb_adjust_gamma_pick(call.mean[1], call.mean[2], call.mean[3])
       IN call' = [call EXCEPT !.temp = s.temp, !.tint = s.tint,
                               !.stage = "returned"]
    /\ UNCHANGED photo

NextPick ==
    \/ PickAdditive
    \/ PickCoeff
    \/ PickGamma

SpecPick == InitPick /\ [][NextPick]_vars

\* ------------------------------------------- slide_processing on one pixel
\* The samples <<B, G, R>> of one pixel through the stages of
\* slide_processing.  Samples are floating-point numbers in the code from
\* hist_EQ on; here they are integers and a product with a fraction is
\* truncated.  self.black_point, self.gamma, self.shadows and self.highlights
\* are 0, the value __init__ gives a parameter without a saved one.
Samples == {0, 20000, 65535}
Pixels == Samples \X Samples \X Samples
BlackPercentiles == {0, 5000}                 \* np.percentile at line 478
WhitePercentiles == {-500, 0, 21845, 65535}   \* np.percentile at line 487
WhitePointSettings == {0, 100}                \* self.white_point
TempSettings == {0, 100}                      \* self.temp
Channels == 1..3

RECURSIVE GCD(_, _)
GCD(a, b) == IF b = 0 THEN a ELSE GCD(b, a % b)

\* A fraction num / den times v
Times(v, num, den) ==
    LET g == GCD(num, den) IN Trunc(v * (num \div g), den \div g)

\* white_multipliers of one channel without `where=white_point>0`
white_multiplier_unguarded(white_point, setting) ==
    [num |-> vmax * (500 + setting), den |-> 500 * white_point]

\* white_multipliers of one channel, lines 486-488, as a fraction:
\* (65535 + self.white_point / 100 * 0.2 * 65535) / white_point where the
\* percentile white_point is > 0, the 1 of max_array elsewhere
white_multiplier(white_point, setting) ==
    IF white_point > 0
    THEN [num |-> vmax * (500 + setting), den |-> 500 * white_point]
    ELSE [num |-> 1, den |-> 1]

WhiteCalls ==
    [fn : {"white_multipliers"}, white_point : [Channels -> WhitePercentiles],
     setting : WhitePointSettings, white_multipliers : {<<>>}, stage : {"args"}]

InitWhite == OnePhoto /\ call \in WhiteCalls

\* lines 486-488 of hist_EQ, for the white points of the three channels
WhiteMultipliers ==
    /\ call.stage = "args"
    /\ call' = [call EXCEPT
                  !.white_multipliers =
                      [c \in Channels |-> white_multiplier(call.white_point[c], call.setting)],
                  !.stage = "returned"]
    /\ UNCHANGED photo

NextWhite == WhiteMultipliers

SpecWhite == InitWhite /\ [][NextWhite]_vars

\* hist_EQ on one sample, lines 479-489
hist_EQ_sample(v, black_point, m) == Times(v - black_point, m.num, m.den)

\* wb_adjust_coeff on a pixel, line 538, multiplier 200
wb_coeff_pixel(px, t, ti) ==
    << Times(px[1], 400 - 2 * t + ti, 400),
       Times(px[2], 200 - ti, 200),
       Times(px[3], 400 + 2 * t + ti, 400) >>

\* matplotlib.colors.Normalize(0, 65535) without clip, times 65535
Normalize_unclipped(v) == v

\* matplotlib.colors.Normalize(0, 65535, True), times 65535
Normalize(v) == Max(0, Min(vmax, v))

\* exposure on one sample, lines 569-583: exponent 1, both coefficients 0
exposure_sample(v) == Normalize(v)

\* sat_adjust on a pixel, lines 589-597, for s <= 100: the saturation of the
\* normalised pixel times s / 100 moves every channel towards the largest
sat_adjust_pixel(px, s) ==
    IF s = 100 THEN px
    ELSE LET n == [c \in Channels |-> Normalize(px[c])]
             V == Max(n[1], Max(n[2], n[3]))
         IN [c \in Channels |-> V - Trunc((V - n[c]) * s, 100)]

\* img.clip(0, 65535).astype(np.uint16), line 337
clip_sample(v) == Max(0, Min(vmax, v))

ToneCalls ==
    [fn : {"slide_processing"}, px : Pixels,
     black_point : BlackPercentiles,
     white_point : [Channels -> WhitePercentiles],
     setting : WhitePointSettings, temp : TempSettings, sat : SatValues,
     white_multipliers : {<<>>}, out : {<<>>}, stage : {"args"}]

InitTone == OnePhoto /\ call \in ToneCalls

\* The pixel as the last stage returned it
Current == IF call.out = <<>> THEN call.px ELSE call.out[Len(call.out)]

\* img = self.hist_EQ(img), line 332
ToneHistEQ ==
    /\ call.stage = "args"
    /\ LET m == [c \in Channels |-> white_multiplier(call.white_point[c], call.setting)]
       IN call' = [call EXCEPT
                     !.white_multipliers = m,
                     !.out = Append(@, [c \in Channels |->
                                hist_EQ_sample(call.px[c], call.black_point, m[c])]),
                     !.stage = "hist_EQ"]
    /\ UNCHANGED photo

\* img = wb_mode[1](img), line 334
ToneWb ==
    /\ call.stage = "hist_EQ"
    /\ call' = [call EXCEPT !.out = Append(@, wb_coeff_pixel(Current, call.temp, 0)),
                            !.stage = "wb"]
    /\ UNCHANGED photo

\* img = self.exposure(img), line 335
ToneExposure ==
    /\ call.stage = "wb"
    /\ call' = [call EXCEPT
                  !.out = Append(@, [c \in Channels |-> exposure_sample(Current[c])]),
                  !.stage = "exposure"]
    /\ UNCHANGED photo

\* img = self.sat_adjust(img), line 336
ToneSat ==
    /\ call.stage = "exposure"
    /\ call' = [call EXCEPT !.out = Append(@, sat_adjust_pixel(Current, call.sat)),
                            !.stage = "sat_adjust"]
    /\ UNCHANGED photo

\* img = img.clip(0, 65535).astype(np.uint16, copy=True), line 337
ToneClip ==
    /\ call.stage = "sat_adjust"
    /\ call' = [call EXCEPT
                  !.out = Append(@, [c \in Channels |-> clip_sample(Current[c])]),
                  !.stage = "clip"]
    /\ UNCHANGED photo

NextTone ==
    \/ ToneHistEQ
    \/ ToneWb
    \/ ToneExposure
    \/ ToneSat
    \/ ToneClip

SpecTone == InitTone /\ [][NextTone]_vars

\* ------------------------------------------------------------ properties
\* The stage sequence of each film type, as process() is specified to call it
ExpectedStages(f) ==
    CASE f = 0 -> <<"gray", "invert", "hist_EQ", "exposure", "clip">>
      [] f = 1 -> <<"invert", "hist_EQ", "wb", "exposure", "sat_adjust", "clip">>
      [] f = 2 -> <<"hist_EQ", "wb", "exposure", "sat_adjust", "clip">>
      [] f = 3 -> <<>>

\* Invocation q has written its increment and has not begun its decrement
Running(q) == pc[q] \in {"geom", "dust", "film", "crop"}

\* Every invocation begun so far asked for recent_only, overlapped with all
\* the others and has returned from the end of process()
AllOverlappedAndFinished ==
    /\ started >= 2
    /\ peak = started
    /\ \A r \in 1..started :
          args[r].recent_only /\ pc[r] \in {"discarded", "committed"}

\* C1: once N >= 2 overlapping process(recent_only=True) invocations have all
\* finished, the visible IMG and dust_mask are those computed by the
\* last-started invocation, never those of an earlier-started one.
LastStartedWins ==
    AllOverlappedAndFinished =>
        /\ IMG.kind = "array" => IMG.run = started
        /\ dust_mask.kind = "array" => dust_mask.run = started

\* C2: a recent_only invocation that leaves its commit check while a
\* newer-started invocation is still running is discarded, and IMG, dust_mask
\* and processed keep their values.
CommitsOnlyIfLatest ==
    [][\A r \in Runs :
          (/\ pc[r] = "check" /\ pc'[r] # "check"
           /\ args[r].recent_only
           /\ \E q \in Runs : q > r /\ Running(q))
          => /\ pc'[r] = "discarded"
             /\ UNCHANGED <<IMG, dust_mask, processed>>]_vars

\* C3: IMG is replaced only by an invocation that has run dust detection, the
\* film-type stages and the crop and has passed the latest-only check, with
\* the buffer that invocation computed; an invocation that is discarded or
\* aborts leaves IMG as it was.  (clear_memory deletes IMG; it writes none.)
IMGReplacedOnlyAtCommit ==
    [][/\ (IMG' # IMG /\ IMG'.kind # "absent") =>
             \E r \in Runs :
                /\ pc[r] = "check" /\ pc'[r] = "commit"
                /\ dm[r].kind = "array"
                /\ trace[r] = Append(ExpectedStages(film_type), "crop")
                /\ ~(args[r].recent_only /\ active_processes > 0)
                /\ IMG' = img[r]
                /\ IMG'.run = r
       /\ \A r \in Runs :
             (pc'[r] # pc[r] /\ pc'[r] \in {"discarded", "aborted"})
             => IMG' = IMG]_vars

\* A recent_only invocation has been discarded and another one has written
\* its result
C3Witness ==
    \E r, q \in Runs :
        /\ pc[q] = "discarded"
        /\ pc[r] = "commit" /\ args[r].recent_only
        /\ IMG.kind = "array" /\ IMG.run = r

\* C4: clear_memory deletes IMG, thresh, RAW_IMG, proxy_RAW_IMG and dust_mask
\* together and sets processed to False; the next process call loads the raw
\* buffer again, computes the geometry again (also with skip_crop), reads no
\* deleted buffer, and what it commits is its own result.
ClearMemoryThenFreshRun ==
    [][/\ ClearMemory =>
             /\ \A b \in {IMG', thresh', RAW_IMG', proxy_RAW_IMG', dust_mask'} :
                   b.kind = "absent"
             /\ ~processed'
       /\ \A r \in Runs :
             /\ (pc[r] = "idle" /\ pc'[r] # "idle" /\ RAW_IMG.kind = "absent")
                => (reloaded'[r] /\ RAW_IMG'.kind # "absent")
             /\ (pc[r] = "geom" /\ pc'[r] # "geom" /\ thresh.kind = "absent")
                => /\ pc'[r] = "dust"
                   /\ thresh'.kind = "array" /\ rect'.kind # "unset"
                   /\ NeedsProxy(RAW_IMG) => proxy_RAW_IMG'.kind = "array"
             /\ (pc[r] \in {"geom", "dust", "crop"}) => pc'[r] # "aborted"
             /\ (pc[r] = "check" /\ pc'[r] # "check" /\ ~args[r].recent_only)
                => pc'[r] = "commit"
             /\ (pc[r] = "commit" /\ pc'[r] # "commit")
                => /\ pc'[r] = "committed" /\ processed'
                   /\ IMG'.kind = "array" /\ IMG'.run = r
                   /\ dust_mask'.kind = "array" /\ dust_mask'.run = r]_vars

\* The second invocation started after a clear_memory that followed the
\* first one's commit, loaded the file again and committed its own result
C4Witness ==
    /\ pc[1] = "committed" /\ pc[2] = "committed"
    /\ reloaded[2] /\ args[2].recent_only = FALSE
    /\ processed /\ IMG.run = 2 /\ dust_mask.run = 2
    /\ thresh.kind = "array" /\ RAW_IMG.kind = "array"

\* C5: on a photo marked unreadable, get_IMG, export and get_base_colour
\* return without raising an error.
UnreadableOpsAreNoOps ==
    ret.unreadable => ~ret.raised

\* C6: active_processes is 0 whenever no invocation is running.
CounterZeroWhenIdle ==
    Idle => active_processes = 0

\* C7: an invocation runs exactly the stage sequence of the photo's
\* film_type, and the crop after it.
StageSequenceByFilmType ==
    \A r \in Runs :
        /\ pc[r] = "crop" => trace[r] = ExpectedStages(film_type)
        /\ pc[r] \in {"dec", "check", "commit"}
           => trace[r] = Append(ExpectedStages(film_type), "crop")

\* A colour negative has gone through invert, the slide sequence and the crop
C7Witness ==
    \E r \in Runs :
        /\ film_type = 1 /\ pc[r] = "check"
        /\ trace[r] = <<"invert", "hist_EQ", "wb", "exposure", "sat_adjust",
                        "clip", "crop">>

\* C8 as stated: for each of the four film types the last step of the
\* film-type pipeline, before the crop, is the clip.
ClipIsLastForAllFilmTypes ==
    \A r \in Runs :
        pc[r] = "crop" =>
            Len(trace[r]) > 0 /\ trace[r][Len(trace[r])] = "clip"

\* C8, amended: for BW_NEGATIVE, COLOR_NEGATIVE and SLIDE the last step of the
\* film-type pipeline is the clip and the crop follows it; CROP_ONLY goes to
\* the crop without any clip.
ClipIsLastExceptCropOnly ==
    \A r \in Runs :
        LET n == Len(trace[r])
        IN /\ (pc[r] = "crop" /\ film_type # 3)
              => n > 0 /\ trace[r][n] = "clip"
           /\ (pc[r] \in {"dec", "check", "commit"} /\ film_type # 3)
              => n > 1 /\ trace[r][n] = "crop" /\ trace[r][n - 1] = "clip"
           /\ (pc[r] \in {"crop", "dec", "check", "commit"} /\ film_type = 3)
              => \A i \in 1..n : trace[r][i] # "clip"

\* A CROP_ONLY invocation has cropped a buffer no clip was applied to
C8Witness ==
    \E r \in Runs :
        /\ film_type = 3 /\ pc[r] = "dec"
        /\ trace[r] = <<"crop">> /\ img[r].kind = "array"

\* C9: when the invocation made by set_wb_from_picker has completed, pick_wb
\* is cleared and temp and tint hold the values solved from the picked patch.
PickerIsOneShot ==
    [][\A r \in Runs :
          (picker[r] /\ pc[r] = "commit" /\ pc'[r] = "committed")
          => LET m == MeanBGR(wb_picker_params)
             IN /\ ~pick_wb'
                /\ tint' = SolveTint(m[1], m[2], m[3])
                /\ temp' = SolveTemp(m[2], m[3], tint')]_vars

\* C10: when find_optimal_crop finds no contour the rectangle is None, dust
\* detection and the crop take the buffer whole, the crop returns it
\* unchanged, and the invocation goes on to commit it and set processed.
NoContourIdentityCrop ==
    [][\A r \in Runs :
          /\ (/\ pc[r] = "geom" /\ pc'[r] # "geom" /\ ~file.frame.contour
              /\ RunsGeometry(args[r].skip_crop, thresh))
             => pc'[r] = "dust" /\ rect'.kind = "None"
          /\ (pc[r] = "dust" /\ pc'[r] # "dust" /\ rect.kind = "None")
             => /\ pc'[r] = "film"
                /\ dm'[r].h = img'[r].h /\ dm'[r].w = img'[r].w
          /\ (pc[r] = "crop" /\ pc'[r] # "crop" /\ rect.kind = "None")
             => pc'[r] = "dec" /\ img'[r] = img[r]
          /\ (/\ pc[r] = "check" /\ pc'[r] # "check" /\ rect.kind = "None"
              /\ ~(args[r].recent_only /\ active_processes > 0))
             => pc'[r] = "commit" /\ IMG' = img[r]
          /\ (pc[r] = "commit" /\ pc'[r] # "commit" /\ rect.kind = "None")
             => pc'[r] = "committed" /\ processed']_vars

\* An invocation on a file without contour has committed a buffer of the
\* size of its working buffer, with no warp among its operations
C10Witness ==
    \E r \in Runs :
        /\ ~file.frame.contour /\ rect.kind = "None"
        /\ pc[r] = "committed" /\ processed
        /\ IMG.kind = "array" /\ IMG.run = r
        /\ IMG.h = RAW_IMG.h /\ IMG.w = RAW_IMG.w
        /\ \A i \in 1..Len(IMG.ops) : IMG.ops[i] # "warp"

\* C11: for every rotation value, both flip settings and every buffer,
\* rotate(rotate(img), undo=True) is img: same shape, same sample at every
\* position.
RotateRoundTrip ==
    (call.fn = "rotate" /\ call.stage = "restored") => call.cur = call.img

\* A non-square buffer has been turned a quarter, flipped and restored
C11Witness ==
    /\ call.fn = "rotate" /\ call.stage = "restored"
    /\ call.rotation % 4 = 1 /\ call.flip
    /\ Rows(call.img) # Cols(call.img)
    /\ call.cur = call.img

\* C12 as stated: every rectangle returned by find_optimal_crop has an angle
\* in (-45, 45].
AngleWithin45 ==
    (call.fn = "find_optimal_crop" /\ call.stage = "returned")
    => (-45 < call.rect.angle /\ call.rect.angle <= 45)

\* C12, amended: every rectangle returned by find_optimal_crop has an angle
\* in [0, 90]: a raw angle <= 0 comes back with 90 added and the sides
\* swapped, a raw angle > 0 comes back as it is.
AngleWithinQuarterTurn ==
    (call.fn = "find_optimal_crop" /\ call.stage = "returned")
    => LET m == minAreaRect(call.shape[1], call.shape[2], call.angle)
           rc == call.rect
       IN /\ rc.kind = "rect"
          /\ 0 <= rc.angle /\ rc.angle <= 90
          /\ call.angle <= 0
             => (rc.angle = call.angle + 90 /\ rc.s0 = m.s1 /\ rc.s1 = m.s0)
          /\ call.angle > 0
             => (rc.angle = call.angle /\ rc.s0 = m.s0 /\ rc.s1 = m.s1)

\* A raw angle of -10 degrees has come back as 80 degrees
C12Witness ==
    /\ call.fn = "find_optimal_crop" /\ call.stage = "returned"
    /\ call.angle = -10 /\ call.rect.angle = 80

\* C13: while the raw buffer stays loaded, a proxy that exists is not made
\* again: it stays the same buffer until clear_memory deletes it.
ProxyDerivedOnce ==
    [][(proxy_RAW_IMG.kind = "array" /\ RAW_IMG' = RAW_IMG)
       => (proxy_RAW_IMG' = proxy_RAW_IMG \/ proxy_RAW_IMG'.kind = "absent")]_vars

\* C14: an invocation with skip_crop on a photo that has a threshold buffer
\* leaves thresh, rect, largest_contour, the proxy flag and proxy_RAW_IMG as
\* they are; an invocation without skip_crop, or on a photo without threshold
\* buffer, estimates the geometry itself.
SkipCropKeepsGeometry ==
    [][\A r \in Runs :
          (pc[r] = "geom" /\ pc'[r] # "geom")
          => IF args[r].skip_crop /\ thresh.kind # "absent"
             THEN /\ pc'[r] = "dust"
                  /\ UNCHANGED <<thresh, rect, largest_contour, proxy,
                                 proxy_RAW_IMG>>
             ELSE /\ pc'[r] = "dust"
                  /\ thresh'.kind = "array" /\ thresh'.run = r
                  /\ rect'.kind # "unset" /\ largest_contour' # "unset"
                  /\ RAW_IMG.h + RAW_IMG.w > max_proxy_size
                     => (proxy' /\ proxy_RAW_IMG'.run = r)]_vars

\* The second invocation has passed line 276 on the threshold buffer and the
\* proxy that the first one made
C14Witness ==
    /\ pc[1] = "committed" /\ pc[2] = "dust"
    /\ thresh.kind = "array" /\ thresh.run = 1
    /\ proxy /\ proxy_RAW_IMG.kind = "array" /\ proxy_RAW_IMG.run = 1

\* The boxes cv2.boxPoints returns for a rotated rectangle of non-zero area
\* (line 411) whose corners are whole pixels: the corners of a rectangle (the
\* diagonals halve each other and are equally long), the leftmost first,
\* then the topmost, then the other two the same way round.
IsBoxPoints(box) ==
    /\ box[1][1] + box[3][1] = box[2][1] + box[4][1]
    /\ box[1][2] + box[3][2] = box[2][2] + box[4][2]
    /\ (box[1][1] - box[3][1]) * (box[1][1] - box[3][1])
         + (box[1][2] - box[3][2]) * (box[1][2] - box[3][2])
       = (box[2][1] - box[4][1]) * (box[2][1] - box[4][1])
         + (box[2][2] - box[4][2]) * (box[2][2] - box[4][2])
    /\ \A i \in 1..4 : box[1][1] <= box[i][1]
    /\ (box[2][1] - box[1][1]) * (box[3][2] - box[2][2])
         - (box[2][2] - box[1][2]) * (box[3][1] - box[2][1]) > 0

Abs(n) == IF n >= 0 THEN n ELSE -n

\* Sum of the four corners' coordinate c: four times the centre
Centre4(box, c) == box[1][c] + box[2][c] + box[3][c] + box[4][c]

\* C15: shrink_box(box, 0, 0) returns the four corners of box, in the order
\* of box, for every box of four integer corners.
ShrinkByZeroIsIdentity ==
    (call.fn = "shrink_box" /\ call.stage = "returned" /\ call.x = 0 /\ call.y = 0)
    => (call.raised = "none" /\ call.new_box = call.box)

\* C16: shrink_box(box, p, p) on a rectangle returns a box whose width and
\* height are (1 - p/100) times those of the rectangle and whose centre is
\* the rectangle's centre, up to rounding, for every rectangle and every p.
\* Rounding moves a corner by less than one pixel: the width and the height
\* (here doubled, and times 100) by less than two, the centre (here times
\* four) by less than one.
ShrinkScalesByP ==
    (call.fn = "shrink_box" /\ call.stage = "returned"
        /\ call.x = call.y /\ IsBoxPoints(call.box))
    => /\ call.raised = "none"
       /\ \A c \in 1..2 :
            /\ Abs(100 * Extent2(call.new_box, c)
                   - (100 - call.x) * Extent2(call.box, c)) <= 400
            /\ Abs(Centre4(call.new_box, c) - Centre4(call.box, c)) <= 4

InRange(v) == 0 <= v /\ v <= vmax

\* C17 as stated: no stage between hist_EQ and the final clip clamps; a sample
\* that hist_EQ or the white balance left outside [0, 65535] is still outside
\* after exposure and after sat_adjust, and the final clip is what clamps it.
CarriedUnclampedToClip ==
    (call.fn = "slide_processing" /\ call.stage \in {"exposure", "sat_adjust"})
    => \A c \in Channels : ~InRange(call.out[2][c]) => ~InRange(Current[c])

\* C17: hist_EQ and the white balance do not clamp, exposure does: a sample
\* they left outside [0, 65535] comes out of exposure as 0 or 65535, every
\* sample is within [0, 65535] from exposure on, and the final clip changes
\* none.
ExposureClamps ==
    (call.fn = "slide_processing" /\ Len(call.out) >= 3)
    => /\ \A c \in Channels :
            /\ call.out[2][c] < 0 => call.out[3][c] = 0
            /\ call.out[2][c] > vmax => call.out[3][c] = vmax
       /\ \A k \in 3..Len(call.out) : \A c \in Channels : InRange(call.out[k][c])
       /\ Len(call.out) = 5 => call.out[5] = call.out[4]

C17Witness ==
    /\ call.fn = "slide_processing" /\ call.stage = "clip"
    /\ \E c \in Channels : call.out[1][c] < 0 /\ call.out[2][c] < 0 /\ call.out[3][c] = 0
    /\ \E c \in Channels : call.out[2][c] > vmax /\ call.out[3][c] = vmax
    /\ call.sat = 100

ReducedFraction(num, den) ==
    [num |-> num \div GCD(num, den), den |-> den \div GCD(num, den)]

\* C19: the white multiplier of a channel is exactly 1 where the channel's
\* white point is <= 0 and (65535 + white_point/100 * 0.2 * 65535) over the
\* white point where it is > 0; nothing is divided by zero or by a negative
\* number.
WhiteMultiplierGuarded ==
    (call.fn = "white_multipliers" /\ call.stage = "returned")
    => \A c \in Channels :
         LET m == call.white_multipliers[c]
             wp == call.white_point[c]
         IN /\ m.den > 0
            /\ wp <= 0 => (m.num = 1 /\ m.den = 1)
            /\ wp > 0 => ReducedFraction(m.num, m.den)
                         = ReducedFraction(5 * vmax + (call.setting * vmax) \div 100,
                                           5 * wp)

C19Witness ==
    /\ call.fn = "white_multipliers" /\ call.stage = "returned"
    /\ call.white_point[1] < 0 /\ call.white_point[2] = 0 /\ call.white_point[3] > 0
    /\ call.setting > 0
    /\ call.white_multipliers[1].num = call.white_multipliers[1].den
    /\ call.white_multipliers[3].num > call.white_multipliers[3].den

\* C18: after a calibration from a picked sample temp and tint are both
\* within [-100, 100], for each of the three white-balance functions and
\* every mean colour of the sample.
PickedWithinRange ==
    (call.fn \in {"wb_adjust", "wb_adjust_coeff", "wb_adjust_gamma"}
        /\ call.stage = "returned")
    => /\ -100 <= call.temp /\ call.temp <= 100
       /\ -100 <= call.tint /\ call.tint <= 100

\* C20: once N >= 1 process(recent_only=True) invocations on the photo have
\* all returned from the end of process(), under any interleaving of their
\* steps, at least one of them has committed: they are never all discarded.
NeverAllDiscarded ==
    (/\ started >= 1
     /\ \A r \in 1..started :
           args[r].recent_only /\ pc[r] \in {"discarded", "committed"})
    => \E r \in 1..started : pc[r] = "committed"

\* C21: whenever IMG and dust_mask both exist and no invocation is in
\* flight (so that get_IMG reads what the invocations left), the two were
\* made by the same invocation of process(), also when the commits of
\* overlapping invocations interleave.
ImgAndMaskFromSameRun ==
    (Idle /\ IMG.kind = "array" /\ dust_mask.kind = "array")
    => IMG.run = dust_mask.run

\* C22: processed is True only while IMG and dust_mask exist, under every
\* interleaving of clear_memory with invocations of process() in flight.
ProcessedImpliesBuffers ==
    processed => (IMG.kind = "array" /\ dust_mask.kind = "array")
====
